---- MODULE Spec2Model ----
(***************************************************************************)
(* Model of intelligent_planner: the Script Library (a directory of        *)
(* program files keyed by a hash of "url:task"), the Repeatability         *)
(* Analyzer, the Script Generator and the orchestrating coroutine          *)
(* IntelligentBrowserAutomation.execute with its fallbacks.                *)
(*                                                                         *)
(* Strings are sequences of one-character tokens ("a", ":", "CR", "LF",    *)
(* "'" ...).  Program text is a sequence of such characters and of tokens  *)
(* that stand for the fixed pieces of the generator's template.            *)
(***************************************************************************)
EXTENDS Integers, Sequences, FiniteSets, TLC

(***************************************************************************)
(* Bounds                                                                  *)
(***************************************************************************)
\* number of invocations of execute in one behaviour
MaxCalls == 3
\* number of direct ScriptLibrary.save calls in one behaviour (SpecLibrary)
MaxSaves == 2
\* size of the modelled key space of the truncated digest
KeySpace == 7
\* get_recommendation is applied to every integer from -MaxScore to MaxScore
MaxScore == 12
\* number of direct calls of analyze and generate_from_exploration in one behaviour
MaxPureCalls == 3

(***************************************************************************)
(* Strings and text files                                                  *)
(***************************************************************************)
\* (starting point, task description) pairs handed to execute / find / save
Requests ==
  { << <<"a">>, <<"b", ":", "c">> >>,
    << <<"a", ":", "b">>, <<"c">> >>,
    << <<"a">>, <<"x", "CR", "y">> >> }

\* program texts handed directly to ScriptLibrary.save
Codes == { <<>>, <<"a">>, <<"a", "LF", "b">>, <<"a", "CR", "b">>, <<"a", "CR", "LF">> }

\* code point of a character, as far as the digest is concerned
Ord(c) ==
  CASE c = "a" -> 1 [] c = "b" -> 2 [] c = "c" -> 3 [] c = ":" -> 4
    [] c = "x" -> 5 [] c = "y" -> 6 [] c = "CR" -> 7 [] c = "LF" -> 8
    [] OTHER -> 9

\* Optional[str]: None, or a text
None == [some |-> FALSE, text |-> <<>>]
Some(s) == [some |-> TRUE, text |-> s]

\* truth value of an Optional[str] in `if existing_script:`
Truthy(o) == o.some /\ o.text # <<>>

\* os.linesep of the platform the program runs on
LineSep == "LF"

\* f.write(code) on a file opened with mode 'w': every "\n" is written as os.linesep
WriteText(s) == [i \in DOMAIN s |-> IF s[i] = "LF" THEN LineSep ELSE s[i]]

\* f.read() on a file opened with mode 'r': universal newlines, every "\r\n" and
\* every lone "\r" is returned as "\n" (the "\n" of a "\r\n" is swallowed)
ReadText(s) ==
  LET translated ==
        [i \in DOMAIN s |->
           IF s[i] = "LF" /\ i > 1 /\ s[i - 1] = "CR" THEN "<swallowed>"
           ELSE IF s[i] = "CR" THEN "LF"
           ELSE s[i]]
      IsChar(c) == c # "<swallowed>"
  IN SelectSeq(translated, IsChar)

(***************************************************************************)
(* Script Library                                                          *)
(***************************************************************************)
\* the string that is hashed: f"{url}:{task}"
Combined(u, t) == u \o <<":">> \o t

\* hashlib.md5(...).hexdigest()[:12]: a deterministic function of the string
\* into a finite key space
RECURSIVE Md5Prefix(_, _)
Md5Prefix(s, h) ==
  IF s = <<>> THEN h
  ELSE Md5Prefix(Tail(s), (h * 31 + Ord(Head(s))) % KeySpace)

GenerateId(u, t) == Md5Prefix(Combined(u, t), 0)

\* ScriptLibrary.find on the directory d (file name -> file content)
LibraryFind(d, u, t) ==
  IF GenerateId(u, t) \in DOMAIN d
  THEN Some(ReadText(d[GenerateId(u, t)]))
  ELSE None

\* nothing is written
LibrarySaveNothing(d, u, t, code) == d

\* ScriptLibrary.save: the directory after the write
LibrarySave(d, u, t, code) ==
  [k \in DOMAIN d \cup {GenerateId(u, t)} |->
     IF k = GenerateId(u, t) THEN WriteText(code) ELSE d[k]]

(***************************************************************************)
(* Traces (models.py)                                                      *)
(***************************************************************************)
\* ExecutionStep: action, optional target, optional value
Step(a, tg, v) == [action |-> a, target |-> tg, value |-> v]

\* Obstacle: type and likelihood (in hundredths)
Obstacle(ty, l) == [type |-> ty, likelihood |-> l]

\* DecisionPoint: the question text
Decision(q) == [question |-> q]

\* ExplorationResult
Exploration(ok, j, o, d, e) ==
  [success |-> ok, journey_log |-> j, obstacles |-> o, decisions |-> d, error |-> e]

\* the value of `exploration` before explore_task has returned
NoExploration == Exploration(FALSE, <<>>, <<>>, <<>>, "unset")

(***************************************************************************)
(* Repeatability Analyzer                                                  *)
(***************************************************************************)
\* the elements of a sequence
Range(s) == { s[i] : i \in DOMAIN s }

\* step counts n for which the double n * 0.7 is below the exact 7n/10
Times07RoundsDown(n) == n \in {90, 170, 180, 330, 340, 350, 360}

\* len(unique_actions) > len(action_types) * 0.7, in double arithmetic
ExceedsVariety(d, n) ==
  10 * d > 7 * n \/ (10 * d = 7 * n /\ Times07RoundsDown(n))

common_patterns == {"navigate", "click", "type", "extract"}

are_steps_deterministic(journey_log) ==
  IF Len(journey_log) = 0 THEN FALSE
  ELSE LET action_types == [i \in DOMAIN journey_log |-> journey_log[i].action]
           unique_actions == Range(action_types)
       IN IF ExceedsVariety(Cardinality(unique_actions), Len(action_types))
          THEN FALSE
          ELSE \E a \in common_patterns : a \in Range(action_types)

unpredictable_types == {"captcha", "random_redirect", "bot_detection"}

\* obs.likelihood > 0.7, with the likelihood in hundredths
HighLikelihood(obs) == obs.likelihood > 70

are_obstacles_predictable(obstacles) ==
  IF Len(obstacles) = 0 THEN TRUE
  ELSE LET predictable == \A i \in DOMAIN obstacles : HighLikelihood(obstacles[i])
           has_unpredictable ==
             \E i \in DOMAIN obstacles : obstacles[i].type \in unpredictable_types
       IN predictable /\ ~has_unpredictable

interpretation_keywords ==
  { <<"r","e","l","e","v","a","n","t">>, <<"b","e","s","t">>, <<"m","o","s","t">>,
    <<"s","u","m","m","a","r","i","z","e">>, <<"a","n","a","l","y","z","e">>,
    <<"d","e","t","e","r","m","i","n","e">>, <<"e","v","a","l","u","a","t","e">>,
    <<"a","s","s","e","s","s">>, <<"j","u","d","g","e">> }

\* str.lower() on one character
LowerChar(c) ==
  CASE c = "B" -> "b" [] c = "E" -> "e" [] c = "S" -> "s" [] c = "T" -> "t"
    [] c = "M" -> "m" [] c = "O" -> "o" [] OTHER -> c

Lower(s) == [i \in DOMAIN s |-> LowerChar(s[i])]

\* keyword in text
Contains(text, keyword) ==
  \E i \in 0..(Len(text) - Len(keyword)) :
     SubSeq(text, i + 1, i + Len(keyword)) = keyword

\* the number of decisions is not looked at
are_decisions_rule_basedByKeywordsOnly(decisions) ==
  ~\E i \in DOMAIN decisions : \E k \in interpretation_keywords :
      Contains(Lower(decisions[i].question), k)

are_decisions_rule_based(decisions) ==
  IF Len(decisions) = 0 THEN TRUE
  ELSE IF Len(decisions) > 5 THEN FALSE
  ELSE LET requires_interpretation ==
             \E i \in DOMAIN decisions : \E k \in interpretation_keywords :
                Contains(Lower(decisions[i].question), k)
       IN ~requires_interpretation

\* only the number of steps counts as a sign of dynamic content
has_dynamic_contentStepsOnly(exploration) == Len(exploration.journey_log) > 20

is_dom_stable(exploration) ==
  exploration.success /\ Len(exploration.journey_log) < 30

has_dynamic_content(exploration) ==
  LET has_many_steps == Len(exploration.journey_log) > 20
      has_many_decisions == Len(exploration.decisions) > 3
  IN has_many_steps \/ has_many_decisions

\* SCRIPT is recommended from score 6 on
get_recommendationScriptFrom6(score) ==
  IF score >= 6 THEN "SCRIPT"
  ELSE IF score >= 3 THEN "HYBRID"
  ELSE "BROWSER_USE"

\* the SCRIPT threshold is exclusive
get_recommendationAbove7(score) ==
  IF score > 7 THEN "SCRIPT"
  ELSE IF score >= 3 THEN "HYBRID"
  ELSE "BROWSER_USE"

get_recommendation(score) ==
  IF score >= 7 THEN "SCRIPT"
  ELSE IF score >= 3 THEN "HYBRID"
  ELSE "BROWSER_USE"

Abs(n) == IF n < 0 THEN 0 - n ELSE n

\* min(abs(score) / 10, 1.0), in tenths
Confidence(score) == IF Abs(score) < 10 THEN Abs(score) ELSE 10

\* analyze with the sum clamped at 0
analyzeClamped(exploration) ==
  LET deterministic == are_steps_deterministic(exploration.journey_log)
      predictable_obstacles == are_obstacles_predictable(exploration.obstacles)
      rule_based == are_decisions_rule_based(exploration.decisions)
      stable_dom == is_dom_stable(exploration)
      has_dynamic == has_dynamic_content(exploration)
      sum == (IF deterministic THEN 3 ELSE 0)
           + (IF predictable_obstacles THEN 2 ELSE 0)
           + (IF rule_based THEN 2 ELSE 0 - 3)
           + (IF stable_dom THEN 2 ELSE 0)
           + (IF has_dynamic THEN 0 - 2 ELSE 0)
      score == IF sum < 0 THEN 0 ELSE sum
  IN [ score |-> score,
       is_repeatable |-> score >= 5,
       confidence |-> Confidence(score),
       recommendation |-> get_recommendation(score),
       reasoning |-> << IF deterministic THEN "+deterministic" ELSE "-deterministic",
                        IF predictable_obstacles THEN "+obstacles" ELSE "-obstacles",
                        IF rule_based THEN "+decisions" ELSE "-decisions",
                        IF stable_dom THEN "+dom" ELSE "-dom",
                        IF has_dynamic THEN "-dynamic" ELSE "+static" >>,
       deterministic_steps |-> deterministic,
       predictable_obstacles |-> predictable_obstacles,
       rule_based_decisions |-> rule_based,
       stable_dom |-> stable_dom ]

\* analyze with is_repeatable decided at the SCRIPT threshold
analyzeRepeatableAt7(exploration) ==
  LET deterministic == are_steps_deterministic(exploration.journey_log)
      predictable_obstacles == are_obstacles_predictable(exploration.obstacles)
      rule_based == are_decisions_rule_based(exploration.decisions)
      stable_dom == is_dom_stable(exploration)
      has_dynamic == has_dynamic_content(exploration)
      score == (IF deterministic THEN 3 ELSE 0)
             + (IF predictable_obstacles THEN 2 ELSE 0)
             + (IF rule_based THEN 2 ELSE 0 - 3)
             + (IF stable_dom THEN 2 ELSE 0)
             + (IF has_dynamic THEN 0 - 2 ELSE 0)
  IN [ score |-> score,
       is_repeatable |-> score >= 7,
       confidence |-> Confidence(score),
       recommendation |-> get_recommendation(score),
       reasoning |-> << IF deterministic THEN "+deterministic" ELSE "-deterministic",
                        IF predictable_obstacles THEN "+obstacles" ELSE "-obstacles",
                        IF rule_based THEN "+decisions" ELSE "-decisions",
                        IF stable_dom THEN "+dom" ELSE "-dom",
                        IF has_dynamic THEN "-dynamic" ELSE "+static" >>,
       deterministic_steps |-> deterministic,
       predictable_obstacles |-> predictable_obstacles,
       rule_based_decisions |-> rule_based,
       stable_dom |-> stable_dom ]

\* RepeatabilityAnalyzer.analyze
analyze(exploration) ==
  LET deterministic == are_steps_deterministic(exploration.journey_log)
      predictable_obstacles == are_obstacles_predictable(exploration.obstacles)
      rule_based == are_decisions_rule_based(exploration.decisions)
      stable_dom == is_dom_stable(exploration)
      has_dynamic == has_dynamic_content(exploration)
      score == (IF deterministic THEN 3 ELSE 0)
             + (IF predictable_obstacles THEN 2 ELSE 0)
             + (IF rule_based THEN 2 ELSE 0 - 3)
             + (IF stable_dom THEN 2 ELSE 0)
             + (IF has_dynamic THEN 0 - 2 ELSE 0)
  IN [ score |-> score,
       is_repeatable |-> score >= 5,
       confidence |-> Confidence(score),
       recommendation |-> get_recommendation(score),
       reasoning |-> << IF deterministic THEN "+deterministic" ELSE "-deterministic",
                        IF predictable_obstacles THEN "+obstacles" ELSE "-obstacles",
                        IF rule_based THEN "+decisions" ELSE "-decisions",
                        IF stable_dom THEN "+dom" ELSE "-dom",
                        IF has_dynamic THEN "-dynamic" ELSE "+static" >>,
       deterministic_steps |-> deterministic,
       predictable_obstacles |-> predictable_obstacles,
       rule_based_decisions |-> rule_based,
       stable_dom |-> stable_dom ]

\* the value of `analysis` before analyze has run
NoAnalysis ==
  [ score |-> 0, is_repeatable |-> FALSE, confidence |-> 0, recommendation |-> "unset",
    reasoning |-> <<>>, deterministic_steps |-> FALSE, predictable_obstacles |-> FALSE,
    rule_based_decisions |-> FALSE, stable_dom |-> FALSE ]

(***************************************************************************)
(* Script Generator                                                        *)
(***************************************************************************)
\* `x or default` on an Optional[str]
OrElse(o, default) == IF Truthy(o) THEN o.text ELSE default

\* str(x) of an Optional[str] inside an f-string
Str(o) == IF o.some THEN o.text ELSE <<"N", "o", "n", "e">>

\* datetime.now().isoformat() at clock reading t
IsoFormat(t) == <<ToString(t)>>

\* one handler block per obstacle of a known type, in order
RECURSIVE ObstacleBlocks(_)
ObstacleBlocks(obstacles) ==
  IF obstacles = <<>> THEN <<>>
  ELSE (CASE Head(obstacles).type = "cookie_banner" -> <<"LF", "<handle cookie banner>">>
          [] Head(obstacles).type = "modal" -> <<"LF", "<handle modal>">>
          [] Head(obstacles).type = "ad" -> <<"LF", "<handle ads>">>
          [] OTHER -> <<>>)
       \o ObstacleBlocks(Tail(obstacles))

generate_obstacle_handlers(obstacles) ==
  IF obstacles = <<>> THEN <<"# No obstacles detected">>
  ELSE <<"# Handle common obstacles">> \o ObstacleBlocks(obstacles)

\* the block appended for step number i
StepBlock(i, step) ==
  CASE step.action = "click" ->
         <<"LF", "# Step ", ToString(i), ": Click", "page.click(", "'">>
         \o OrElse(step.target, <<"b", "u", "t", "t", "o", "n">>) \o <<"'", ")">>
    [] step.action \in {"type", "fill"} ->
         <<"LF", "# Step ", ToString(i), ": Fill input", "page.fill(", "'">>
         \o OrElse(step.target, <<"i", "n", "p", "u", "t">>) \o <<"'", ",", "'">>
         \o OrElse(step.value, <<>>) \o <<"'", ")">>
    [] step.action = "navigate" ->
         <<"LF", "# Step ", ToString(i), ": Navigate", "page.goto(", "'">>
         \o (IF Truthy(step.value) THEN step.value.text ELSE Str(step.target))
         \o <<"'", ")">>
    [] step.action = "scroll" ->
         <<"LF", "# Step ", "{i}", ": Scroll", "page.evaluate(scrollBy)">>
    [] OTHER -> <<>>

RECURSIVE StepBlocks(_, _)
StepBlocks(journey_log, i) ==
  IF i > Len(journey_log) THEN <<>>
  ELSE StepBlock(i, journey_log[i]) \o StepBlocks(journey_log, i + 1)

generate_main_steps(journey_log) ==
  IF journey_log = <<>> THEN <<"# No steps recorded">>
  ELSE <<"# Main execution steps">> \o StepBlocks(journey_log, 1)

generate_extract_logic(exploration) == <<"LF", "<extract results>">>

\* ScriptGenerator._generate_playwright_script at clock reading t
generate_playwright_script(exploration, u, t, clock) ==
  <<"<docstring open>", "Task: ">> \o t \o <<"LF", "URL: ">> \o u
  \o <<"LF", "Generated: ">> \o IsoFormat(clock)
  \o <<"LF", "<docstring close>", "async with async_playwright() as p:",
       "browser = p.chromium.launch()", "page = browser.new_page()",
       "try:", "page.goto(", "'">>
  \o u \o <<"'", ")", "LF">>
  \o generate_obstacle_handlers(exploration.obstacles) \o <<"LF">>
  \o generate_main_steps(exploration.journey_log) \o <<"LF">>
  \o generate_extract_logic(exploration)
  \o <<"LF", "return result", "except: raise", "finally: browser.close()", "<main>">>

\* ScriptGenerator.generate_from_exploration with framework "playwright"
generate_from_exploration(exploration, u, t, clock) ==
  [ code |-> generate_playwright_script(exploration, u, t, clock),
    language |-> "python",
    dependencies |-> <<"playwright">> ]

(***************************************************************************)
(* State                                                                   *)
(***************************************************************************)
VARIABLES
  lib,              \* the library directory: file name (key) -> file content
  io,               \* "reliable": file operations succeed; "faulty": they may raise
  now,              \* clock reading; one tick per invocation of execute
  pc,               \* position of the running invocation of execute
  caller,           \* the function _execute_with_browser_use was called from
  url, task,        \* arguments of the running invocation
  existing_script,  \* what script_library.find returned
  cached_error,     \* the exception caught at line 104
  exploration,      \* what explore_task returned
  analysis,         \* what analyze returned
  script,           \* script.code of the generated script
  test_output,      \* stdout of the successful test run of the generated script
  adaptive_result,  \* what execute_non_repeatable returned last
  ret,              \* how execute ended: value returned or exception raised
  log,              \* calls made by the running invocation, in order
  lib0,             \* the library directory when the running invocation began
  learned,          \* pairs whose generated script passed its test in an earlier invocation
  nsaves,           \* number of direct ScriptLibrary.save calls so far
  last_save,        \* key -> arguments of the latest direct save under that key
  last_call,        \* the latest direct ScriptLibrary call and what it returned
  saving,           \* the file a save in another process holds open, and its progress
  started,          \* <<key, text>> of every save another process has begun
  run               \* the execution of a generated program: position and resources

vars == << lib, io, now, pc, caller, url, task, existing_script, cached_error,
           exploration, analysis, script, test_output, adaptive_result, ret, log,
           lib0, learned, nsaves, last_save, last_call, saving, started, run >>

invocation_vars == << now, pc, caller, url, task, existing_script, cached_error,
                      exploration, analysis, script, test_output, adaptive_result,
                      ret, log, lib0, learned >>

direct_vars == << nsaves, last_save, last_call, saving, started >>

program_vars == << run >>

\* no save is in progress in another process
NotSaving == [open |-> FALSE, key |-> 0, code |-> <<>>, flushed |-> 0]

\* no generated program is being executed
NotRunning ==
  [ at |-> "idle", ip |-> 0, in_try |-> FALSE, playwright |-> "none",
    browser |-> "none", raised_at |-> "none", close_called |-> FALSE ]

(***************************************************************************)
(* Values returned by execute                                              *)
(***************************************************************************)
\* execute has not ended
NoReturn ==
  [kind |-> "none", success |-> FALSE, method |-> "None", result |-> "None",
   error |-> "None", script_path |-> 0 - 1]

\* ExecutionResult(success=, method=, result=, error=, script_path=)
ExecutionResult(ok, m, r, e, sp) ==
  [kind |-> "ExecutionResult", success |-> ok, method |-> m, result |-> r,
   error |-> e, script_path |-> sp]

\* a bare str is returned
StrValue(out) ==
  [kind |-> "str", success |-> FALSE, method |-> "None", result |-> out,
   error |-> "None", script_path |-> 0 - 1]

\* execute ends by raising e
Raised(e) ==
  [kind |-> "raise", success |-> FALSE, method |-> "None", result |-> "None",
   error |-> e, script_path |-> 0 - 1]

(***************************************************************************)
(* Collaborators and environment                                           *)
(***************************************************************************)
\* outcome of open(path, 'w') + f.write(...): done, open raised (file untouched),
\* or write raised after open truncated the file
WriteOutcomes == IF io = "faulty" THEN {"ok", "open_error", "write_error"} ELSE {"ok"}

\* outcome of open(path, 'r') + f.read() on an existing file
ReadOutcomes == IF io = "faulty" THEN {"ok", "read_error"} ELSE {"ok"}

\* _execute_script: outcome of writing the temp file and of subprocess.run
SandboxOutcomes ==
  { [kind |-> "exit0", out |-> "stdout1", error |-> "None"],
    [kind |-> "exit0", out |-> "stdout2", error |-> "None"],
    [kind |-> "nonzero", out |-> "None", error |-> "Script failed: stderr"],
    [kind |-> "timeout", out |-> "None", error |-> "TimeoutExpired"] }
  \cup (IF io = "faulty"
        THEN {[kind |-> "oserror", out |-> "None", error |-> "OSError(temp file)"]}
        ELSE {})

\* traces LLMExplorer._explore_with_browser_use can return
TraceScript ==
  Exploration(TRUE,
              << Step("click", Some(<<"a">>), None), Step("click", None, None),
                 Step("type", None, Some(<<"x">>)) >>,
              << Obstacle("cookie_banner", 90) >>, <<>>, "None")

TraceHybrid ==
  Exploration(TRUE, << Step("navigate", None, Some(<<"a">>)) >>, <<>>, <<>>, "None")

TraceBrowserUse ==
  Exploration(TRUE, [i \in 1..30 |-> Step("scroll", None, None)], <<>>, <<>>, "None")

TraceUnsuccessful ==
  Exploration(FALSE, << Step("unknown", None, None) >>, <<>>, <<>>, "None")

TraceException == Exploration(FALSE, <<>>, <<>>, <<>>, "explore: agent failed")

\* LLMExplorer.explore_task: a trace, or an exception
ExplorerOutcomes ==
  { [kind |-> "trace", trace |-> tr, error |-> "None"] :
      tr \in {TraceScript, TraceHybrid, TraceBrowserUse, TraceUnsuccessful, TraceException} }
  \cup { [kind |-> "raise", trace |-> NoExploration, error |-> "explore: NotImplementedError"] }

\* BrowserUseExecutor.execute_non_repeatable: an ExecutionResult, or an exception
\* raised while the browser and the agent are set up
AdaptiveOutcomes ==
  { ExecutionResult(TRUE, "BROWSER_USE", "final_result", "None", 0 - 1),
    ExecutionResult(FALSE, "BROWSER_USE", "final_result", "None", 0 - 1),
    ExecutionResult(FALSE, "BROWSER_USE", "None", "adaptive: agent failed", 0 - 1),
    Raised("adaptive: setup failed") }

(***************************************************************************)
(* Orchestrator: IntelligentBrowserAutomation.execute                      *)
(***************************************************************************)
\* l with one more call: the operation, its arguments and how it ended
Logged(l, o, a, r) == Append(l, [op |-> o, arg |-> a, out |-> r])

Ops(l) == { l[i].op : i \in DOMAIN l }

\* lines 101-103: what execute returns when the cached script ran successfully
CachedSuccessReturn(out) == StrValue(out)

\* the cached script is run again after it failed
OnCachedFailureRetry(e) == [pc |-> "execute_cached", ret |-> NoReturn]

\* the failure of the cached script ends execute with that error
OnCachedFailureSurfaced(e) ==
  [pc |-> "done", ret |-> [kind |-> "ExecutionResult", success |-> FALSE, method |-> "SCRIPT",
                           result |-> "None", error |-> e, script_path |-> 0 - 1]]

\* lines 104-106: where execute goes when the cached script failed with e
OnCachedFailure(e) == [pc |-> "explore", ret |-> NoReturn]

\* the trace's error is dropped
ExplorationFailedResultNoError(tr) ==
  [kind |-> "ExecutionResult", success |-> FALSE, method |-> "EXPLORATION_FAILED",
   result |-> "None", error |-> "None", script_path |-> 0 - 1]

\* lines 112-119
ExplorationFailedResult(tr) ==
  ExecutionResult(FALSE, "EXPLORATION_FAILED", "None", tr.error, 0 - 1)

\* every recommendation is sent to script generation
RouteAlwaysGenerate(recommendation) ==
  IF recommendation = "SCRIPT"
  THEN [pc |-> "generate", caller |-> "execute"]
  ELSE [pc |-> "generate", caller |-> "_execute_hybrid"]

\* lines 132-140: the function execute delegates to
Route(recommendation) ==
  IF recommendation = "SCRIPT"
  THEN [pc |-> "generate", caller |-> "execute"]
  ELSE IF recommendation = "BROWSER_USE"
  THEN [pc |-> "adaptive", caller |-> "execute"]
  ELSE [pc |-> "generate", caller |-> "_execute_hybrid"]

\* whether _execute_with_script runs inside the try of _execute_hybrid
InHybridTry == analysis.recommendation \notin {"SCRIPT", "BROWSER_USE"}

\* no handler around _execute_with_script
OnGenerateFailureUnhandled(hybrid, e) ==
  [pc |-> "done", caller |-> "execute",
   ret |-> [kind |-> "raise", success |-> FALSE, method |-> "None", result |-> "None",
            error |-> e, script_path |-> 0 - 1]]

\* lines 152-160 lie outside any try of _execute_with_script: an exception there
\* reaches _execute_hybrid's handler, or leaves execute
OnGenerateFailure(hybrid, e) ==
  IF hybrid
  THEN [pc |-> "adaptive", caller |-> "_execute_hybrid", ret |-> NoReturn]
  ELSE [pc |-> "done", caller |-> "execute", ret |-> Raised(e)]

\* the result is labelled with the route it was produced on
ScriptSuccessResultByRoute(out, saved_path) ==
  ExecutionResult(TRUE, IF InHybridTry THEN "HYBRID" ELSE "SCRIPT", out, "None", saved_path)

\* lines 173-178
ScriptSuccessResult(out, saved_path) ==
  ExecutionResult(TRUE, "SCRIPT", out, "None", saved_path)

\* the directory after a save that raised
LibrarySaveFailed(d, u, t, w) ==
  IF w = "write_error" THEN LibrarySave(d, u, t, <<>>) ELSE d

\* the adaptive executor is called again whenever it raised
OnAdaptiveRaiseRetry(from, hybrid, r) ==
  [pc |-> "adaptive", caller |-> "_execute_hybrid", ret |-> NoReturn]

\* an exception of the adaptive executor reaches _execute_hybrid's handler when it
\* was called from _execute_with_script's handler inside the hybrid try
OnAdaptiveRaise(from, hybrid, r) ==
  IF from = "_execute_with_script" /\ hybrid
  THEN [pc |-> "adaptive", caller |-> "_execute_hybrid", ret |-> NoReturn]
  ELSE [pc |-> "done", caller |-> from, ret |-> r]

\* the executor's result is rebuilt without its error
AdaptiveResultWithoutError(result) == [result EXCEPT !.error = "None"]

\* line 203: _execute_with_browser_use returns the executor's result
AdaptivePassThrough(result) == result

\* the invocation that just ended generated a script on a cache miss under
\* recommendation SCRIPT and its test run succeeded
LearningRun ==
  /\ pc = "done"
  /\ ~Truthy(existing_script)
  /\ analysis.recommendation = "SCRIPT"
  /\ test_output.some

Init ==
  /\ lib = << >>
  /\ io = "faulty"
  /\ now = 0
  /\ pc = "idle"
  /\ caller = "execute"
  /\ url = <<>> /\ task = <<>>
  /\ existing_script = None
  /\ cached_error = "None"
  /\ exploration = NoExploration
  /\ analysis = NoAnalysis
  /\ script = None
  /\ test_output = None
  /\ adaptive_result = NoReturn
  /\ ret = NoReturn
  /\ log = <<>>
  /\ lib0 = << >>
  /\ learned = {}
  /\ nsaves = 0
  /\ last_save = << >>
  /\ last_call = [op |-> "none", url |-> <<>>, task |-> <<>>, result |-> None]
  /\ saving = NotSaving
  /\ started = {}
  /\ run = NotRunning

\* execute, lines 91-98: a new invocation begins and looks the pair up
Call(u, t) ==
  /\ pc \in {"idle", "done"}
  /\ now < MaxCalls
  /\ now' = now + 1
  /\ url' = u /\ task' = t
  /\ learned' = IF LearningRun THEN learned \cup {<<url, task>>} ELSE learned
  /\ lib0' = lib
  /\ caller' = "execute"
  /\ cached_error' = "None"
  /\ exploration' = NoExploration
  /\ analysis' = NoAnalysis
  /\ script' = None
  /\ test_output' = None
  /\ adaptive_result' = NoReturn
  /\ \E r \in (IF GenerateId(u, t) \in DOMAIN lib THEN ReadOutcomes ELSE {"ok"}) :
       IF r = "ok"
       THEN /\ existing_script' = LibraryFind(lib, u, t)
            /\ log' = Logged(<<>>, "find", <<u, t>>, "returned")
            /\ pc' = IF Truthy(existing_script') THEN "execute_cached" ELSE "explore"
            /\ ret' = NoReturn
       ELSE /\ existing_script' = None
            /\ log' = Logged(<<>>, "find", <<u, t>>, "raised")
            /\ pc' = "done"
            /\ ret' = Raised("OSError(find)")
  /\ UNCHANGED << lib, io, direct_vars, program_vars >>

\* execute, lines 99-106, with _execute_script
ExecuteCached ==
  /\ pc = "execute_cached"
  /\ \E o \in SandboxOutcomes :
       /\ log' = Logged(log, "sandbox", <<existing_script.text>>,
                         IF o.kind = "exit0" THEN o.out ELSE o.error)
       /\ IF o.kind = "exit0"
          THEN /\ ret' = CachedSuccessReturn(o.out)
               /\ pc' = "done"
               /\ UNCHANGED cached_error
          ELSE /\ cached_error' = o.error
               /\ pc' = OnCachedFailure(o.error).pc
               /\ ret' = OnCachedFailure(o.error).ret
  /\ UNCHANGED << lib, io, now, caller, url, task, existing_script, exploration,
                  analysis, script, test_output, adaptive_result, lib0, learned,
                  direct_vars, program_vars >>

\* execute, lines 108-140: exploration, analysis and routing
Explore ==
  /\ pc = "explore"
  /\ \E o \in ExplorerOutcomes :
       IF o.kind = "raise"
       THEN /\ log' = Logged(log, "explore", <<url, task>>, "raised")
            /\ ret' = Raised(o.error)
            /\ pc' = "done"
            /\ UNCHANGED << exploration, analysis, caller >>
       ELSE /\ exploration' = o.trace
            /\ IF ~o.trace.success
               THEN /\ log' = Logged(log, "explore", <<url, task>>, "unsuccessful")
                    /\ ret' = ExplorationFailedResult(o.trace)
                    /\ pc' = "done"
                    /\ UNCHANGED << analysis, caller >>
               ELSE /\ analysis' = analyze(o.trace)
                    /\ log' = Logged(Logged(log, "explore", <<url, task>>, "successful"),
                                     "analyze", <<o.trace>>, analysis'.recommendation)
                    /\ pc' = Route(analysis'.recommendation).pc
                    /\ caller' = Route(analysis'.recommendation).caller
                    /\ ret' = NoReturn
  /\ UNCHANGED << lib, io, now, url, task, existing_script, cached_error, script,
                  test_output, adaptive_result, lib0, learned, direct_vars, program_vars >>

\* _execute_with_script, lines 149-163: generate the script, write the test file
GenerateScript ==
  /\ pc = "generate"
  /\ script' = Some(generate_from_exploration(exploration, url, task, now).code)
  /\ \E w \in WriteOutcomes :
       IF w = "ok"
       THEN /\ log' = Logged(log, "generate", <<exploration, url, task>>, "written")
            /\ pc' = "test"
            /\ UNCHANGED << caller, ret >>
       ELSE /\ log' = Logged(log, "generate", <<exploration, url, task>>, "OSError(test file)")
            /\ pc' = OnGenerateFailure(InHybridTry, "OSError(test file)").pc
            /\ caller' = OnGenerateFailure(InHybridTry, "OSError(test file)").caller
            /\ ret' = OnGenerateFailure(InHybridTry, "OSError(test file)").ret
  /\ UNCHANGED << lib, io, now, url, task, existing_script, cached_error, exploration,
                  analysis, test_output, adaptive_result, lib0, learned, direct_vars, program_vars >>

\* _execute_with_script, lines 165-183: test run, save, or fall back
TestScript ==
  /\ pc = "test"
  /\ \E o \in SandboxOutcomes :
       IF o.kind = "exit0"
       THEN /\ test_output' = Some(<<o.out>>)
            /\ \E w \in WriteOutcomes :
                 /\ log' = Logged(Logged(log, "sandbox", <<script.text>>, o.out),
                                  "save", <<url, task, script.text>>,
                                  IF w = "ok" THEN "saved" ELSE "OSError(save)")
                 /\ IF w = "ok"
                    THEN /\ lib' = LibrarySave(lib, url, task, script.text)
                         /\ ret' = ScriptSuccessResult(o.out, GenerateId(url, task))
                         /\ pc' = "done"
                         /\ UNCHANGED caller
                    ELSE /\ lib' = LibrarySaveFailed(lib, url, task, w)
                         /\ ret' = NoReturn
                         /\ pc' = "adaptive"
                         /\ caller' = "_execute_with_script"
       ELSE /\ log' = Logged(log, "sandbox", <<script.text>>, o.error)
            /\ pc' = "adaptive"
            /\ caller' = "_execute_with_script"
            /\ UNCHANGED << lib, ret, test_output >>
  /\ UNCHANGED << io, now, url, task, existing_script, cached_error, exploration,
                  analysis, script, adaptive_result, lib0, learned, direct_vars, program_vars >>

\* _execute_with_browser_use, lines 185-203
Adaptive ==
  /\ pc = "adaptive"
  /\ \E o \in AdaptiveOutcomes :
       IF o.kind = "raise"
       THEN /\ log' = Logged(log, "adaptive", <<url, task, exploration>>, "raised")
            /\ pc' = OnAdaptiveRaise(caller, InHybridTry, o).pc
            /\ caller' = OnAdaptiveRaise(caller, InHybridTry, o).caller
            /\ ret' = OnAdaptiveRaise(caller, InHybridTry, o).ret
            /\ UNCHANGED adaptive_result
       ELSE /\ log' = Logged(log, "adaptive", <<url, task, exploration>>, "returned")
            /\ adaptive_result' = o
            /\ pc' = "done"
            /\ ret' = AdaptivePassThrough(o)
            /\ UNCHANGED caller
  /\ UNCHANGED << lib, io, now, url, task, existing_script, cached_error, exploration,
                  analysis, script, test_output, lib0, learned, direct_vars, program_vars >>

Next ==
  \/ \E rq \in Requests : Call(rq[1], rq[2])
  \/ ExecuteCached
  \/ Explore
  \/ GenerateScript
  \/ TestScript
  \/ Adaptive

\* the orchestrator on a file system whose operations may raise
Spec == Init /\ [][Next]_vars

\* the orchestrator on a file system whose operations always succeed
InitReliable ==
  /\ lib = << >>
  /\ io = "reliable"
  /\ now = 0
  /\ pc = "idle"
  /\ caller = "execute"
  /\ url = <<>> /\ task = <<>>
  /\ existing_script = None
  /\ cached_error = "None"
  /\ exploration = NoExploration
  /\ analysis = NoAnalysis
  /\ script = None
  /\ test_output = None
  /\ adaptive_result = NoReturn
  /\ ret = NoReturn
  /\ log = <<>>
  /\ lib0 = << >>
  /\ learned = {}
  /\ nsaves = 0
  /\ last_save = << >>
  /\ last_call = [op |-> "none", url |-> <<>>, task |-> <<>>, result |-> None]
  /\ saving = NotSaving
  /\ started = {}
  /\ run = NotRunning

SpecReliable == InitReliable /\ [][Next]_vars

\* the orchestrator when every awaited collaborator call and every sandbox run
\* (subprocess.run with timeout=300) comes back
SpecFair ==
  /\ Init /\ [][Next]_vars
  /\ WF_vars(ExecuteCached)
  /\ WF_vars(Explore)
  /\ WF_vars(GenerateScript)
  /\ WF_vars(TestScript)
  /\ WF_vars(Adaptive)

(***************************************************************************)
(* Direct use of the Script Library                                        *)
(***************************************************************************)
\* script_library.save(u, t, code)
LibSave(u, t, code) ==
  /\ nsaves < MaxSaves
  /\ nsaves' = nsaves + 1
  /\ lib' = LibrarySave(lib, u, t, code)
  /\ last_save' = [k \in DOMAIN last_save \cup {GenerateId(u, t)} |->
                     IF k = GenerateId(u, t)
                     THEN [url |-> u, task |-> t, code |-> code]
                     ELSE last_save[k]]
  /\ last_call' = [op |-> "save", url |-> u, task |-> t, result |-> None]
  /\ UNCHANGED << io, invocation_vars, program_vars, saving, started >>

\* script_library.find(u, t)
LibFind(u, t) ==
  /\ last_call' = [op |-> "find", url |-> u, task |-> t, result |-> LibraryFind(lib, u, t)]
  /\ UNCHANGED << lib, io, nsaves, last_save, invocation_vars, program_vars, saving, started >>

NextLibrary ==
  \/ \E rq \in Requests, code \in Codes : LibSave(rq[1], rq[2], code)
  \/ \E rq \in Requests : LibFind(rq[1], rq[2])

SpecLibrary == InitReliable /\ [][NextLibrary]_vars

(***************************************************************************)
(* The analyzer and the routing on its recommendation, on their own        *)
(***************************************************************************)
\* the journey navigate, click, type, extract, repeated to n steps
Canonical(n) ==
  [i \in 1..n |->
     Step(<<"navigate", "click", "type", "extract">>[((i - 1) % 4) + 1], None, None)]

\* a journey of n steps with d distinct action kinds, one of them click
Varied(n, d) ==
  [i \in 1..n |-> Step(IF i < d THEN ToString(i) ELSE "click", None, None)]

\* journey logs handed to analyze
JourneyInputs ==
  { <<>>,
    Canonical(4), Canonical(8), Canonical(24),
    Varied(10, 7), Varied(10, 8), Varied(90, 63),
    << Step("click", None, None) >>,
    << Step("click", None, None), Step("click", None, None), Step("type", None, None) >>,
    [i \in 1..3 |-> Step("scroll", None, None)],
    [i \in 1..25 |-> Step("click", None, None)],
    [i \in 1..30 |-> Step("click", None, None)],
    [i \in 1..30 |-> Step("scroll", None, None)] }

\* obstacle lists handed to analyze
ObstacleInputs ==
  { <<>>,
    << Obstacle("cookie_banner", 90) >>,
    << Obstacle("cookie_banner", 70) >>,
    << Obstacle("captcha", 90) >>,
    << Obstacle("modal", 80), Obstacle("ad", 50) >> }

\* decision lists handed to analyze
DecisionInputs ==
  { <<>>,
    << Decision(<<"f", "i", "r", "s", "t">>) >>,
    << Decision(<<"t", "h", "e", " ", "B", "E", "S", "T">>) >>,
    [i \in 1..4 |-> Decision(<<"f", "i", "r", "s", "t">>)],
    [i \in 1..6 |-> Decision(<<"f", "i", "r", "s", "t">>)] }

\* traces handed to analyze
AnalyzerInputs ==
  { Exploration(ok, j, o, d, "None") :
      ok \in BOOLEAN, j \in JourneyInputs, o \in ObstacleInputs, d \in DecisionInputs }

\* integers handed to get_recommendation
ScoreInputs == (0 - MaxScore)..MaxScore

InitAnalyzer ==
  /\ lib = << >>
  /\ io = "reliable"
  /\ now = 0
  /\ pc = "analyze"
  /\ caller = "execute"
  /\ url = <<>> /\ task = <<>>
  /\ existing_script = None
  /\ cached_error = "None"
  /\ exploration \in AnalyzerInputs
  /\ analysis = NoAnalysis
  /\ script = None
  /\ test_output = None
  /\ adaptive_result = NoReturn
  /\ ret = NoReturn
  /\ log = <<>>
  /\ lib0 = << >>
  /\ learned = {}
  /\ nsaves = 0
  /\ last_save = << >>
  /\ last_call = [op |-> "none", url |-> <<>>, task |-> <<>>, result |-> None]
  /\ saving = NotSaving
  /\ started = {}
  /\ run = NotRunning

\* execute, line 125: analysis = self.repeatability_analyzer.analyze(exploration)
AnalyzeTrace ==
  /\ pc = "analyze"
  /\ analysis' = analyze(exploration)
  /\ pc' = "analyzed"
  /\ UNCHANGED << lib, io, now, caller, url, task, existing_script, cached_error,
                  exploration, script, test_output, adaptive_result, ret, log, lib0,
                  learned, direct_vars, program_vars >>

\* analyze, line 81: recommendation = self.get_recommendation(score)
Recommend(s) ==
  /\ pc = "analyze"
  /\ analysis' = [NoAnalysis EXCEPT !.score = s, !.recommendation = get_recommendation(s)]
  /\ pc' = "recommended"
  /\ UNCHANGED << lib, io, now, caller, url, task, existing_script, cached_error,
                  exploration, script, test_output, adaptive_result, ret, log, lib0,
                  learned, direct_vars, program_vars >>

\* execute, lines 132-140: the branch on analysis.recommendation
RouteOnRecommendation ==
  /\ pc \in {"analyzed", "recommended"}
  /\ pc' = Route(analysis.recommendation).pc
  /\ caller' = Route(analysis.recommendation).caller
  /\ UNCHANGED << lib, io, now, url, task, existing_script, cached_error, exploration,
                  analysis, script, test_output, adaptive_result, ret, log, lib0,
                  learned, direct_vars, program_vars >>

NextAnalyzer ==
  \/ AnalyzeTrace
  \/ \E s \in ScoreInputs : Recommend(s)
  \/ RouteOnRecommendation

SpecAnalyzer == InitAnalyzer /\ [][NextAnalyzer]_vars

(***************************************************************************)
(* Repeated direct calls of the analyzer and of the generator              *)
(***************************************************************************)
\* a trace with steps the generator has no branch for, and an obstacle
TraceMixed ==
  Exploration(TRUE,
              << Step("navigate", Some(<<"a">>), None), Step("extract", None, None),
                 Step("scroll", None, None), Step("fill", None, Some(<<"x">>)),
                 Step("unknown", None, None) >>,
              << Obstacle("modal", 80) >>, <<>>, "None")

\* a trace whose click target contains a quote character
TraceQuoted ==
  Exploration(TRUE, << Step("click", Some(<<"a", "'", "b">>), None) >>, <<>>, <<>>, "None")

\* traces handed to analyze and to generate_from_exploration
PureTraces == { TraceScript, TraceMixed, TraceQuoted }

\* (url, task) pairs handed to generate_from_exploration
PureRequests == { rq \in Requests : Len(rq[1]) = 1 }

\* the analyzer counts its calls and adds the count to the score
RepeatabilityAnalyzerWithMemory(tr) == [analyze(tr) EXCEPT !.score = @ + Len(log)]

\* self.repeatability_analyzer.analyze(trace): RepeatabilityAnalyzer has no
\* attributes, so the call is analyze applied to its argument
RepeatabilityAnalyzerAnalyze(tr) == analyze(tr)

\* analyzer.analyze(tr)
CallAnalyze(tr) ==
  /\ Len(log) < MaxPureCalls
  /\ exploration' = tr
  /\ analysis' = RepeatabilityAnalyzerAnalyze(tr)
  /\ log' = Logged(log, "analyze", <<tr>>, analysis')
  /\ UNCHANGED << lib, io, now, pc, caller, url, task, existing_script, cached_error,
                  script, test_output, adaptive_result, ret, lib0, learned, direct_vars, program_vars >>

\* generator.generate_from_exploration(tr, u, t) at the current clock reading
CallGenerate(tr, u, t) ==
  /\ Len(log) < MaxPureCalls
  /\ exploration' = tr
  /\ url' = u /\ task' = t
  /\ script' = Some(generate_from_exploration(tr, u, t, now).code)
  /\ log' = Logged(log, "generate", <<tr, u, t>>, script'.text)
  /\ UNCHANGED << lib, io, now, pc, caller, existing_script, cached_error, analysis,
                  test_output, adaptive_result, ret, lib0, learned, direct_vars, program_vars >>

\* time passes between two calls
Tick ==
  /\ now < MaxCalls
  /\ now' = now + 1
  /\ UNCHANGED << lib, io, pc, caller, url, task, existing_script, cached_error,
                  exploration, analysis, script, test_output, adaptive_result, ret, log,
                  lib0, learned, direct_vars, program_vars >>

NextPure ==
  \/ \E tr \in PureTraces : CallAnalyze(tr)
  \/ \E tr \in PureTraces, rq \in PureRequests : CallGenerate(tr, rq[1], rq[2])
  \/ Tick

SpecPure == InitReliable /\ [][NextPure]_vars

(***************************************************************************)
(* Two processes sharing the library directory: one saves, one finds       *)
(***************************************************************************)
\* program texts saved by the other process
ConcurrentCodes == { <<"a", "b">>, <<"c", "d", "e">> }

\* the directory d with file k holding content
WithFile(d, k, content) ==
  [j \in DOMAIN d \cup {k} |-> IF j = k THEN content ELSE d[j]]

\* save, line 49: open(script_path, 'w') creates the file or truncates it
SaveOpen(u, t, code) ==
  /\ ~saving.open
  /\ nsaves < MaxSaves
  /\ nsaves' = nsaves + 1
  /\ lib' = WithFile(lib, GenerateId(u, t), <<>>)
  /\ saving' = [open |-> TRUE, key |-> GenerateId(u, t), code |-> code, flushed |-> 0]
  /\ started' = started \cup {<<GenerateId(u, t), code>>}
  /\ UNCHANGED << io, invocation_vars, program_vars, last_save, last_call >>

\* save, line 50: f.write(code) hands a full buffer to the file before the rest
\* of the text is there
SaveFlush ==
  /\ saving.open
  /\ \E n \in (saving.flushed + 1)..(Len(saving.code) - 1) :
       /\ lib' = WithFile(lib, saving.key, WriteText(SubSeq(saving.code, 1, n)))
       /\ saving' = [saving EXCEPT !.flushed = n]
  /\ UNCHANGED << io, invocation_vars, program_vars, nsaves, last_save, last_call, started >>

\* save, end of the with block: the rest of the text is flushed, the file is closed
SaveClose ==
  /\ saving.open
  /\ lib' = WithFile(lib, saving.key, WriteText(saving.code))
  /\ saving' = NotSaving
  /\ UNCHANGED << io, invocation_vars, program_vars, nsaves, last_save, last_call, started >>

\* find in the other process: exists, open, read
FindWhileSaving(u, t) ==
  /\ last_call' = [op |-> "find", url |-> u, task |-> t, result |-> LibraryFind(lib, u, t)]
  /\ UNCHANGED << lib, io, invocation_vars, program_vars, nsaves, last_save, saving, started >>

NextConcurrent ==
  \/ \E rq \in Requests, code \in ConcurrentCodes : SaveOpen(rq[1], rq[2], code)
  \/ SaveFlush
  \/ SaveClose
  \/ \E rq \in Requests : FindWhileSaving(rq[1], rq[2])

SpecConcurrent == InitReliable /\ [][NextConcurrent]_vars

(***************************************************************************)
(* Execution of a generated program (template, lines 92-119)               *)
(***************************************************************************)
\* traces whose generated program is run
ProgramTraces == { TraceScript, TraceHybrid, TraceMixed }

\* the statements of the template and of the step blocks that can raise; the
\* obstacle handlers swallow their own exceptions (try ... except: pass)
CanRaise(tok) ==
  tok \in { "browser = p.chromium.launch()", "page = browser.new_page()", "page.goto(",
            "page.click(", "page.fill(", "page.evaluate(scrollBy)", "<extract results>",
            "finally: browser.close()" }

\* position of the finally clause of the try statement that starts at line 98
FinallyAt(text) == CHOOSE i \in DOMAIN text : text[i] = "finally: browser.close()"

\* leaving the block stops Playwright without closing what it launched
PlaywrightStopLeavesBrowser(b) == b

\* leaving `async with async_playwright() as p:` (line 94) stops the Playwright
\* driver, which closes every browser that was launched from p and is still open
PlaywrightStop(b) == IF b = "open" THEN "closed" ELSE b

\* the statement at position ip completes
Completed(r, text) ==
  LET tok == text[r.ip] IN
  CASE tok = "async with async_playwright() as p:" ->
         [r EXCEPT !.playwright = "running", !.ip = @ + 1]
    [] tok = "browser = p.chromium.launch()" -> [r EXCEPT !.browser = "open", !.ip = @ + 1]
    [] tok = "try:" -> [r EXCEPT !.in_try = TRUE, !.ip = @ + 1]
    [] tok = "return result" -> [r EXCEPT !.in_try = FALSE, !.ip = FinallyAt(text)]
    [] tok = "finally: browser.close()" ->
         [r EXCEPT !.browser = "closed", !.close_called = TRUE, !.at = "exit_scope"]
    [] OTHER -> [r EXCEPT !.ip = @ + 1]

\* the statement at position ip raises: inside the try statement the handler
\* re-raises (lines 115-117) and the finally clause runs; outside it the
\* exception leaves the `async with` block directly
Raises(r, text) ==
  LET tok == text[r.ip] IN
  IF r.in_try
  THEN [r EXCEPT !.raised_at = tok, !.in_try = FALSE, !.ip = FinallyAt(text)]
  ELSE [r EXCEPT !.raised_at = IF @ = "none" THEN tok ELSE @,
                 !.close_called = (tok = "finally: browser.close()") \/ @,
                 !.at = "exit_scope"]

\* generator.generate_from_exploration(tr, u, t) for a program that will be run
GenerateProgram(tr, u, t) ==
  /\ run.at = "idle"
  /\ CallGenerate(tr, u, t)

\* asyncio.run(automated_task()), line 123
StartProgram ==
  /\ run.at = "idle"
  /\ script.some
  /\ run' = [run EXCEPT !.at = "running", !.ip = 1]
  /\ UNCHANGED << lib, io, invocation_vars, direct_vars >>

\* one statement of the program text
ExecStatement ==
  /\ run.at = "running"
  /\ run.ip \in DOMAIN script.text
  /\ \/ run' = Completed(run, script.text)
     \/ /\ CanRaise(script.text[run.ip])
        /\ run' = Raises(run, script.text)
  /\ UNCHANGED << lib, io, invocation_vars, direct_vars >>

\* the end of the `async with` block, on return or on an exception
ExitAsyncWith ==
  /\ run.at = "exit_scope"
  /\ run' = [run EXCEPT !.playwright = "stopped", !.browser = PlaywrightStop(@),
                        !.at = "exited"]
  /\ UNCHANGED << lib, io, invocation_vars, direct_vars >>

NextProgram ==
  \/ \E tr \in ProgramTraces, rq \in PureRequests : GenerateProgram(tr, rq[1], rq[2])
  \/ StartProgram
  \/ ExecStatement
  \/ ExitAsyncWith

SpecProgram == InitReliable /\ [][NextProgram]_vars

(***************************************************************************)
(* Properties of the orchestrator                                          *)
(***************************************************************************)
\* the running invocation found a cached script and its sandbox run exited with 0
CachedRunSucceeded ==
  /\ pc = "done"
  /\ Truthy(existing_script)
  /\ cached_error = "None"
  /\ Len(log) = 2 /\ log[2].op = "sandbox"

\* the running invocation found a cached script and its sandbox run failed
CachedRunFailed == cached_error # "None"

\* C1: when the library holds a script for (url, task) and its sandbox run exits
\* with 0, execute returns an ExecutionResult with success = true, method = SCRIPT
\* and result = the captured stdout, and calls neither the exploration engine, the
\* analyzer, the generator nor the adaptive executor.
C1_CacheHitReturnsScriptResult ==
  CachedRunSucceeded =>
    /\ ret.kind = "ExecutionResult"
    /\ ret.success
    /\ ret.method = "SCRIPT"
    /\ ret.result = log[2].out
    /\ Ops(log) \cap {"explore", "analyze", "generate", "adaptive"} = {}

\* C2: when the sandbox run of a cached script fails (non-zero exit, timeout), the
\* same invocation goes on to call the exploration engine with (url, task), and the
\* error of the cached run is never the error execute ends with.
C2_CachedFailureRecovers ==
  CachedRunFailed =>
    /\ log[2].op = "sandbox" /\ log[2].out = cached_error
    /\ pc = "explore" \/ (Len(log) >= 3 /\ log[3].op = "explore" /\ log[3].arg = <<url, task>>)
    /\ pc = "explore" => ret = NoReturn
    /\ ret.error # cached_error

\* a cached script timed out and the invocation ended with an ExecutionResult
C2_Witness ==
  /\ pc = "done"
  /\ cached_error = "TimeoutExpired"
  /\ ret.kind = "ExecutionResult"
  /\ ret.error # "None"

\* the sandbox runs in the log other than the run of the cached script
GeneratedRuns ==
  { i \in DOMAIN log : log[i].op = "sandbox" /\ ~(i = 2 /\ Truthy(existing_script)) }

\* C3: when the exploration engine returns an unsuccessful trace, execute returns
\* success = false, method = EXPLORATION_FAILED, result = none and the trace's
\* error; analyzer, generator, sandbox (for a generated program) and adaptive
\* executor are not called and the library is left as it was.
C3_ExplorationFailureIsTerminal ==
  (exploration # NoExploration /\ ~exploration.success) =>
    /\ pc = "done"
    /\ ret = ExecutionResult(FALSE, "EXPLORATION_FAILED", "None", exploration.error, 0 - 1)
    /\ Ops(log) \cap {"analyze", "generate", "save", "adaptive"} = {}
    /\ GeneratedRuns = {}
    /\ lib = lib0

\* exploration failed with an error after a cached script had failed
C3_Witness ==
  /\ exploration = TraceException
  /\ CachedRunFailed
  /\ ret.method = "EXPLORATION_FAILED"
  /\ ret.error = "explore: agent failed"

\* C4: when the sandbox run of the generated script succeeds, the text that was run
\* is saved under (url, task), execute returns success = true, method = SCRIPT,
\* result = the captured stdout and script_path = the saved location, and
\* find(url, task) then returns exactly the text that was tested.
C4_TestedProgramIsPersisted ==
  (pc = "done" /\ test_output.some) =>
    /\ ret = ExecutionResult(TRUE, "SCRIPT", test_output.text[1], "None", GenerateId(url, task))
    /\ \E i \in GeneratedRuns : log[i].arg = <<script.text>> /\ log[i].out = ret.result
    /\ LibraryFind(lib, url, task) = Some(script.text)

\* position of the analyzer's call in the log
AnalyzeAt == CHOOSE i \in DOMAIN log : log[i].op = "analyze"

\* a failure while writing the generated script to the test file, or a failed or
\* timed-out sandbox run of it
GenerateOrTestFailed ==
  \E i \in DOMAIN log :
     \/ log[i].op = "generate" /\ log[i].out # "written"
     \/ i \in GeneratedRuns /\ log[i].out \notin {"stdout1", "stdout2"}

\* any failure inside _execute_with_script before the fallback: the above, or a
\* failed save
GenerateAndTestFailed ==
  \/ GenerateOrTestFailed
  \/ \E i \in DOMAIN log : log[i].op = "save" /\ log[i].out # "saved"

\* the adaptive executor has been called with (url, task, trace)
AdaptiveCalled ==
  \E i \in DOMAIN log : log[i].op = "adaptive" /\ log[i].arg = <<url, task, exploration>>

\* execute ended with what the adaptive executor ended with: its result, or the
\* exception it raised
EndedAsAdaptive ==
  /\ log[Len(log)].op = "adaptive"
  /\ IF log[Len(log)].out = "returned"
     THEN ret = adaptive_result /\ ret.kind = "ExecutionResult" /\ ret.method = "BROWSER_USE"
     ELSE ret = Raised("adaptive: setup failed")

\* C5: under recommendation SCRIPT every failure inside generate-and-test (writing
\* the test file, a failed or timed-out sandbox run) leads to the adaptive executor
\* being called with (url, task, trace) and execute ending with that executor's
\* result; execute never ends by raising the failure.
C5_ScriptFailuresFallBack ==
  (analysis.recommendation = "SCRIPT" /\ GenerateOrTestFailed) =>
    /\ pc \in {"adaptive", "done"}
    /\ pc = "done" => AdaptiveCalled /\ EndedAsAdaptive

\* C6: under recommendation HYBRID the orchestrator first attempts generate-and-test,
\* and on any failure inside it the adaptive executor is called and execute ends
\* with that executor's result, not with the failure.
C6_HybridFallsThrough ==
  analysis.recommendation = "HYBRID" =>
    /\ pc = "generate" \/ (Len(log) > AnalyzeAt /\ log[AnalyzeAt + 1].op = "generate")
    /\ GenerateAndTestFailed =>
         /\ pc \in {"adaptive", "done"}
         /\ pc = "done" => AdaptiveCalled /\ EndedAsAdaptive

\* under HYBRID the test file could not be written and the adaptive executor's
\* successful result was returned
C6_Witness ==
  /\ analysis.recommendation = "HYBRID"
  /\ pc = "done"
  /\ \E i \in DOMAIN log : log[i].op = "generate" /\ log[i].out = "OSError(test file)"
  /\ ret = adaptive_result
  /\ ret.success

\* C7: on a cache miss with recommendation BROWSER_USE the orchestrator never calls
\* the generator, never runs the sandbox and never writes to the library; the call
\* after the analysis is the adaptive executor's, with the trace.
C7_BrowserUseDelegatesDirectly ==
  (analysis.recommendation = "BROWSER_USE" /\ ~Truthy(existing_script)) =>
    /\ Ops(log) \cap {"generate", "sandbox", "save"} = {}
    /\ script = None
    /\ lib = lib0
    /\ \/ pc = "adaptive" /\ Len(log) = AnalyzeAt
       \/ /\ Len(log) > AnalyzeAt
          /\ log[AnalyzeAt + 1].op = "adaptive"
          /\ log[AnalyzeAt + 1].arg = <<url, task, exploration>>

\* a BROWSER_USE trace on a cache miss ended with the adaptive executor's result
C7_Witness ==
  /\ analysis.recommendation = "BROWSER_USE"
  /\ ~Truthy(existing_script)
  /\ pc = "done"
  /\ ret = adaptive_result
  /\ ret.success

\* the running invocation is for a pair that an earlier invocation learned
Rerun == pc # "idle" /\ <<url, task>> \in learned

\* a rerun starts with the sandbox run of the text find returned
RerunTakesCachedPath ==
  Rerun =>
    /\ Truthy(existing_script)
    /\ log[1].op = "find" /\ log[1].arg = <<url, task>>
    /\ pc = "execute_cached" \/
         (Len(log) >= 2 /\ log[2].op = "sandbox" /\ log[2].arg = <<existing_script.text>>)

\* the invocation that learns leaves an entry for its pair
LearningLeavesEntry == LearningRun => LibraryFind(lib, url, task).some

C9_RoundTrip ==
  (/\ last_call.op = "find"
   /\ GenerateId(last_call.url, last_call.task) \in DOMAIN last_save
   /\ last_save[GenerateId(last_call.url, last_call.task)].url = last_call.url
   /\ last_save[GenerateId(last_call.url, last_call.task)].task = last_call.task)
  => last_call.result = Some(last_save[GenerateId(last_call.url, last_call.task)].code)

\* two different strings with the same digest prefix
HashCollision(p, q) ==
  /\ Combined(p[1], p[2]) # Combined(q[1], q[2])
  /\ GenerateId(p[1], p[2]) = GenerateId(q[1], q[2])

\* C10: for two distinct pairs, absent a collision of the hash function,
\* save(u2, t2, ...) leaves the result of find(u, t) unchanged.
C10_NoCrossKeyInterference ==
  [][ \A p \in Requests :
        (/\ nsaves' = nsaves + 1
         /\ p # <<last_call'.url, last_call'.task>>
         /\ ~HashCollision(p, <<last_call'.url, last_call'.task>>))
        => LibraryFind(lib', p[1], p[2]) = LibraryFind(lib, p[1], p[2]) ]_vars

(***************************************************************************)
(* Properties of the library as the orchestrator uses it                   *)
(***************************************************************************)
\* the files the running invocation created or changed
WrittenKeys ==
  { k \in DOMAIN lib : k \notin DOMAIN lib0 \/ lib[k] # lib0[k] }

\* the text was run in the sandbox by the running invocation and exited with 0
ValidatedHere(text) ==
  \E i \in DOMAIN log :
     /\ log[i].op = "sandbox"
     /\ log[i].out \in {"stdout1", "stdout2"}
     /\ WriteText(log[i].arg[1]) = text

\* C11: every library entry the running invocation wrote holds the text of a
\* successful sandbox run made earlier in that invocation, and an invocation
\* that is in, or ended through, exploration failure, adaptive execution or a
\* failed test run has written nothing.
C11_OnlyValidatedProgramsAreCached ==
  /\ \A k \in WrittenKeys : ValidatedHere(lib[k])
  /\ (\/ pc = "adaptive"
      \/ "adaptive" \in Ops(log)
      \/ ret.method = "EXPLORATION_FAILED"
      \/ \E i \in GeneratedRuns : log[i].out \notin {"stdout1", "stdout2"})
     => WrittenKeys = {}

(***************************************************************************)
(* Properties of error handling                                            *)
(***************************************************************************)
\* C12: execute always ends by returning an ExecutionResult, never by raising,
\* and a returned result with success = false has method EXPLORATION_FAILED or
\* BROWSER_USE.
C12_OnlyTwoFailuresAreVisible ==
  pc = "done" =>
    /\ ret.kind = "ExecutionResult"
    /\ ~ret.success => ret.method \in {"EXPLORATION_FAILED", "BROWSER_USE"}

\* reading the library file of (url, task) raised
FindRaised == log # <<>> /\ log[1].op = "find" /\ log[1].out = "raised"

\* C13: when the library entry of (url, task) exists but cannot be read, find
\* reports absent and the invocation goes on to exploration as on a cache miss.
C13_ReadFailureIsAMiss ==
  FindRaised =>
    /\ existing_script = None
    /\ ret.kind # "raise"
    /\ pc = "explore" \/ (Len(log) >= 2 /\ log[2].op = "explore")

\* saving the validated script raised
SaveRaised == \E i \in DOMAIN log : log[i].op = "save" /\ log[i].out # "saved"

\* C14: when saving a validated script to the library fails, execute ends by
\* raising that failure; the adaptive executor is not called in its place.
C14_WriteFailureIsSurfaced ==
  SaveRaised =>
    /\ pc = "done"
    /\ ret = Raised("OSError(save)")
    /\ "adaptive" \notin Ops(log)

(***************************************************************************)
(* Properties of the fallback order                                        *)
(***************************************************************************)
\* positions of the sandbox runs in the log of the running invocation
SandboxAt == { i \in DOMAIN log : log[i].op = "sandbox" }

\* C16: within one invocation no program text is run in the sandbox twice; after
\* a failed run of the cached script the next call is the exploration engine's,
\* and after a failed test run of the generated script the next call is the
\* adaptive executor's.
C16_NoRetryOfSameProgram ==
  /\ \A i, j \in SandboxAt : i # j => log[i].arg # log[j].arg
  /\ CachedRunFailed =>
       \/ pc = "explore" /\ Len(log) = 2
       \/ Len(log) >= 3 /\ log[3].op = "explore"
  /\ \A i \in GeneratedRuns :
       log[i].out \notin {"stdout1", "stdout2"} =>
         \/ pc = "adaptive" /\ Len(log) = i
         \/ Len(log) > i /\ log[i + 1].op = "adaptive"

\* the cached script failed, a script was generated afresh, its test run failed
\* too and the adaptive executor returned
C16_Witness ==
  /\ pc = "done"
  /\ CachedRunFailed
  /\ Cardinality(SandboxAt) = 2
  /\ \E i \in GeneratedRuns : log[i].out = "Script failed: stderr"
  /\ ret = adaptive_result

\* C18: when an invocation that reached the adaptive executor returns, the value
\* returned is the ExecutionResult the executor produced in its last call: same
\* success flag, result and error, and method BROWSER_USE, whether it succeeded or
\* failed; nothing runs after the executor, and when it produced no result
\* (it raised) execute returns none either.
C18_AdaptivePassThrough ==
  (pc = "done" /\ "adaptive" \in Ops(log)) =>
    /\ log[Len(log)].op = "adaptive"
    /\ IF log[Len(log)].out = "returned"
       THEN /\ ret.kind = "ExecutionResult"
            /\ adaptive_result \in AdaptiveOutcomes
            /\ ret.success = adaptive_result.success
            /\ ret.result = adaptive_result.result
            /\ ret.error = adaptive_result.error
            /\ ret.method = "BROWSER_USE"
       ELSE ret.kind = "raise"

\* the generated script failed its test and the adaptive executor's failure,
\* with its error, is what execute returned
C18_Witness ==
  /\ pc = "done"
  /\ \E i \in GeneratedRuns : log[i].out = "TimeoutExpired"
  /\ log[Len(log)].op = "adaptive"
  /\ ret.kind = "ExecutionResult"
  /\ ~ret.success
  /\ ret.error = "adaptive: agent failed"

\* C27: an invocation queries the library before it calls anything else; when
\* find returned program text (an entry exists) the next step is the sandbox run
\* of exactly that text, and the exploration engine is the first collaborator
\* called only when find reported absent.
C27_LookupDecidesFirstStrategy ==
  pc # "idle" =>
    /\ log[1].op = "find" /\ log[1].arg = <<url, task>>
    /\ existing_script.some =>
         \/ pc = "execute_cached" /\ Len(log) = 1
         \/ Len(log) >= 2 /\ log[2].op = "sandbox" /\ log[2].arg = <<existing_script.text>>
    /\ (pc = "explore" /\ Len(log) = 1) \/ (Len(log) >= 2 /\ log[2].op = "explore")
         => existing_script = None

\* how far the running invocation has got through execute and the functions it
\* delegates to; the call of the adaptive executor in _execute_hybrid's handler
\* (line 219) comes after the one in _execute_with_script's handler (line 183)
Progress ==
  CASE pc = "idle" -> 0
    [] pc = "execute_cached" -> 1
    [] pc = "explore" -> 2
    [] pc = "generate" -> 3
    [] pc = "test" -> 4
    [] pc = "adaptive" /\ caller # "_execute_hybrid" -> 5
    [] pc = "adaptive" /\ caller = "_execute_hybrid" -> 6
    [] OTHER -> 7

\* positions of the exploration engine's calls in the log
ExploreAt == { i \in DOMAIN log : log[i].op = "explore" }

\* C17: every invocation of execute that has begun eventually ends; no step of
\* an invocation leads back to a position it has been at, an invocation calls
\* the exploration engine at most once and runs the sandbox at most twice.
C17_Termination ==
  /\ [](Cardinality(ExploreAt) <= 1 /\ Cardinality(SandboxAt) <= 2)
  /\ [][pc \notin {"idle", "done"} => Progress' > Progress]_vars
  /\ (pc \notin {"idle", "done"}) ~> (pc = "done")

\* an invocation that explored once and ran the sandbox twice has ended
C17_Witness ==
  /\ pc = "done"
  /\ Cardinality(ExploreAt) = 1
  /\ Cardinality(SandboxAt) = 2
  /\ ret.kind = "ExecutionResult"

(***************************************************************************)
(* Properties of the analyzer                                              *)
(***************************************************************************)
\* C19: the score analyze returns is the signed sum, without clamping, of +3 for
\* deterministic steps, +2 for predictable obstacles, +2 for rule-based decisions
\* and -3 otherwise, +2 for a stable structure and -2 for dynamic content, each
\* signal being its heuristic applied to the trace alone.
C19_ScoreFormula ==
  pc = "analyzed" =>
    /\ analysis.deterministic_steps = are_steps_deterministic(exploration.journey_log)
    /\ analysis.predictable_obstacles = are_obstacles_predictable(exploration.obstacles)
    /\ analysis.rule_based_decisions = are_decisions_rule_based(exploration.decisions)
    /\ analysis.stable_dom = is_dom_stable(exploration)
    /\ (analysis.reasoning[5] = "-dynamic") = has_dynamic_content(exploration)
    /\ analysis.score =
           (IF analysis.deterministic_steps THEN 3 ELSE 0)
         + (IF analysis.predictable_obstacles THEN 2 ELSE 0)
         + (IF analysis.rule_based_decisions THEN 2 ELSE 0 - 3)
         + (IF analysis.stable_dom THEN 2 ELSE 0)
         + (IF analysis.reasoning[5] = "-dynamic" THEN 0 - 2 ELSE 0)

\* a trace with every signal unfavourable scores -5
C19_Witness ==
  /\ pc = "analyzed"
  /\ analysis.score = 0 - 5
  /\ ~analysis.deterministic_steps /\ ~analysis.predictable_obstacles
  /\ ~analysis.rule_based_decisions /\ ~analysis.stable_dom
  /\ analysis.reasoning[5] = "-dynamic"

\* C20: the recommendation is SCRIPT iff score >= 7, HYBRID iff 3 <= score <= 6
\* and BROWSER_USE iff score <= 2, and execute delegates to _execute_with_script,
\* _execute_hybrid or _execute_with_browser_use accordingly.
C20_RoutingThresholds ==
  analysis.recommendation # "unset" =>
    /\ analysis.recommendation = "SCRIPT" <=> analysis.score >= 7
    /\ analysis.recommendation = "HYBRID" <=> (3 <= analysis.score /\ analysis.score <= 6)
    /\ analysis.recommendation = "BROWSER_USE" <=> analysis.score <= 2
    /\ pc \in {"generate", "adaptive"} =>
         /\ (pc = "generate" /\ caller = "execute") <=> analysis.score >= 7
         /\ (pc = "generate" /\ caller = "_execute_hybrid")
              <=> (3 <= analysis.score /\ analysis.score <= 6)
         /\ (pc = "adaptive" /\ caller = "execute") <=> analysis.score <= 2

\* a trace scoring exactly 7 was routed to _execute_with_script
C20_Witness ==
  /\ exploration \in AnalyzerInputs
  /\ analysis.reasoning # <<>>
  /\ analysis.score = 7
  /\ pc = "generate"
  /\ caller = "execute"

\* C33: for every trace the score analyze returns lies in -5..9, so the
\* confidence |score|/10 is at most 0.9 and below the clamp at 1.0; is_repeatable
\* is true iff score >= 5, so recommendation SCRIPT implies is_repeatable and
\* recommendation BROWSER_USE implies not is_repeatable.
C33_ScoreRange ==
  pc = "analyzed" =>
    /\ 0 - 5 <= analysis.score /\ analysis.score <= 9
    /\ analysis.confidence = Abs(analysis.score)
    /\ analysis.confidence <= 9
    /\ analysis.is_repeatable <=> analysis.score >= 5
    /\ analysis.recommendation = "SCRIPT" => analysis.is_repeatable
    /\ analysis.recommendation = "BROWSER_USE" => ~analysis.is_repeatable

\* a trace reached the top of the range: score 9, confidence 0.9, SCRIPT
C33_Witness ==
  /\ pc = "analyzed"
  /\ analysis.score = 9
  /\ analysis.confidence = 9
  /\ analysis.is_repeatable
  /\ analysis.recommendation = "SCRIPT"

\* C34: for every trace with more than 5 decisions the decisions signal is false
\* and the dynamic-content penalty applies, so the score is at most 2 and the
\* recommendation is BROWSER_USE whatever the steps, obstacles and success are;
\* execute then delegates to _execute_with_browser_use and never to script
\* generation.
C34_ManyDecisionsRouteToAdaptive ==
  (analysis.reasoning # <<>> /\ Len(exploration.decisions) > 5) =>
    /\ ~analysis.rule_based_decisions
    /\ analysis.reasoning[5] = "-dynamic"
    /\ analysis.score <= 2
    /\ analysis.recommendation = "BROWSER_USE"
    /\ pc # "generate"
    /\ pc # "analyzed" => (pc = "adaptive" /\ caller = "execute")

\* a trace with more than 5 decisions and every other signal favourable scored 2
\* and was handed to the adaptive executor
C34_Witness ==
  /\ analysis.reasoning # <<>>
  /\ Len(exploration.decisions) > 5
  /\ analysis.deterministic_steps /\ analysis.predictable_obstacles /\ analysis.stable_dom
  /\ analysis.score = 2
  /\ pc = "adaptive"

\* the action kinds of the trace's journey
ActionKinds ==
  { exploration.journey_log[i].action : i \in DOMAIN exploration.journey_log }

\* what the deterministic-steps signal added to the score
StepsContribution ==
  analysis.score
    - (IF analysis.predictable_obstacles THEN 2 ELSE 0)
    - (IF analysis.rule_based_decisions THEN 2 ELSE 0 - 3)
    - (IF analysis.stable_dom THEN 2 ELSE 0)
    - (IF analysis.reasoning[5] = "-dynamic" THEN 0 - 2 ELSE 0)

\* C28: for a journey of n steps with d distinct action kinds, deterministic_steps
\* is false when n = 0, false when 10 * d > 7 * n, and otherwise true iff some
\* step's action is navigate, click, type or extract; it adds 3 to the score
\* exactly when it is true.
C28_DeterministicStepsSignal ==
  pc = "analyzed" =>
    /\ Len(exploration.journey_log) = 0 => ~analysis.deterministic_steps
    /\ 10 * Cardinality(ActionKinds) > 7 * Len(exploration.journey_log)
         => ~analysis.deterministic_steps
    /\ (/\ Len(exploration.journey_log) # 0
        /\ ~(10 * Cardinality(ActionKinds) > 7 * Len(exploration.journey_log)))
         => (analysis.deterministic_steps
               <=> ActionKinds \cap {"navigate", "click", "type", "extract"} # {})
    /\ StepsContribution = IF analysis.deterministic_steps THEN 3 ELSE 0

\* the trace's journey uses exactly the kinds navigate, click, type and extract
IsCanonicalTrace ==
  /\ exploration.success
  /\ { exploration.journey_log[i].action : i \in DOMAIN exploration.journey_log }
       = {"navigate", "click", "type", "extract"}
  /\ Len(exploration.journey_log) < 30
  /\ exploration.obstacles = <<>>
  /\ exploration.decisions = <<>>

\* C21: for a successful trace whose steps are navigate, click, type, extract,
\* with no obstacles, no decisions and fewer than 30 steps, analyze returns all
\* four signals true, no dynamic-content penalty, score 9, recommendation SCRIPT,
\* is_repeatable true and confidence 0.9.
C21_CanonicalRepeatableTrace ==
  (pc = "analyzed" /\ IsCanonicalTrace) =>
    /\ analysis.deterministic_steps
    /\ analysis.predictable_obstacles
    /\ analysis.rule_based_decisions
    /\ analysis.stable_dom
    /\ analysis.reasoning[5] = "+static"
    /\ analysis.score = 9
    /\ analysis.recommendation = "SCRIPT"
    /\ analysis.is_repeatable
    /\ analysis.confidence = 9

\* some question of the trace contains an interpretation keyword, in any case
SomeQuestionHasKeyword ==
  \E i \in DOMAIN exploration.decisions : \E k \in interpretation_keywords :
     Contains(Lower(exploration.decisions[i].question), k)

\* what the decisions signal added to the score
DecisionsContribution ==
  analysis.score
    - (IF analysis.deterministic_steps THEN 3 ELSE 0)
    - (IF analysis.predictable_obstacles THEN 2 ELSE 0)
    - (IF analysis.stable_dom THEN 2 ELSE 0)
    - (IF analysis.reasoning[5] = "-dynamic" THEN 0 - 2 ELSE 0)

\* C22: with more than 5 decisions rule_based_decisions is false and the signal
\* contributes -3, whatever the questions say; with 1 to 5 decisions it is true
\* iff no question contains an interpretation keyword; with none it is true.
C22_DecisionCountDominatesKeywords ==
  pc = "analyzed" =>
    /\ Len(exploration.decisions) > 5 =>
         ~analysis.rule_based_decisions /\ DecisionsContribution = 0 - 3
    /\ Len(exploration.decisions) \in 1..5 =>
         (analysis.rule_based_decisions <=> ~SomeQuestionHasKeyword)
    /\ Len(exploration.decisions) = 0 => analysis.rule_based_decisions
    /\ DecisionsContribution = IF analysis.rule_based_decisions THEN 2 ELSE 0 - 3

\* six decisions without any keyword: not rule-based, -3
C22_Witness ==
  /\ pc = "analyzed"
  /\ Len(exploration.decisions) = 6
  /\ ~SomeQuestionHasKeyword
  /\ ~analysis.rule_based_decisions
  /\ DecisionsContribution = 0 - 3

\* C35: for every trace, recommendation SCRIPT implies that the steps signal and
\* the decisions signal are both true; so a trace with fewer than two steps, a
\* trace whose distinct action kinds exceed 0.7 of its steps, and a trace with a
\* decision whose question contains an interpretation keyword is never
\* recommended SCRIPT nor delegated to _execute_with_script by execute.
C35_ScriptNeedsDeterminismAndRules ==
  analysis.reasoning # <<>> =>
    /\ analysis.recommendation = "SCRIPT" =>
         (analysis.deterministic_steps /\ analysis.rule_based_decisions)
    /\ (\/ Len(exploration.journey_log) < 2
        \/ 10 * Cardinality(ActionKinds) > 7 * Len(exploration.journey_log)
        \/ SomeQuestionHasKeyword)
         => /\ analysis.recommendation \in {"HYBRID", "BROWSER_USE"}
            /\ ~(pc = "generate" /\ caller = "execute")

\* a trace whose only unfavourable signal is a keyword in a question was
\* recommended HYBRID
C35_Witness ==
  /\ analysis.reasoning # <<>>
  /\ SomeQuestionHasKeyword
  /\ analysis.deterministic_steps /\ analysis.predictable_obstacles /\ analysis.stable_dom
  /\ analysis.reasoning[5] = "+static"
  /\ analysis.recommendation = "HYBRID"
  /\ pc = "generate"

(***************************************************************************)
(* Properties of repeated calls                                            *)
(***************************************************************************)
\* positions in the log of the direct calls of a function
CallsOf(fn) == { i \in DOMAIN log : log[i].op = fn }

C24_GenerateIsPure ==
  \A i, j \in CallsOf("generate") : log[i].arg = log[j].arg => log[i].out = log[j].out

(***************************************************************************)
(* Properties of the generated program text                                *)
(***************************************************************************)
\* the heading of an action block
IsBlockHeading(tok) ==
  tok \in {": Click", ": Fill input", ": Navigate", ": Scroll", ": No-op"}

\* the headings of the action blocks of a program text, in order
ActionBlocks(text) == SelectSeq(text, IsBlockHeading)

\* the block a step is to be translated into
ExpectedBlock(step) ==
  CASE step.action = "click" -> ": Click"
    [] step.action \in {"type", "fill"} -> ": Fill input"
    [] step.action = "navigate" -> ": Navigate"
    [] step.action = "scroll" -> ": Scroll"
    [] OTHER -> ": No-op"

\* C25: the generated program has exactly one action block per step of the
\* trace, in trace order: click, fill (for type and fill), navigate, scroll, and a
\* no-op placeholder for a step of any other kind.
C25_OneBlockPerStep ==
  \A i \in CallsOf("generate") :
     ActionBlocks(log[i].out) =
       [k \in DOMAIN log[i].arg[1].journey_log |->
          ExpectedBlock(log[i].arg[1].journey_log[k])]

\* number of quote characters in a text
RECURSIVE QuoteCount(_)
QuoteCount(text) ==
  IF text = <<>> THEN 0
  ELSE (IF Head(text) = "'" THEN 1 ELSE 0) + QuoteCount(Tail(text))

\* number of quote characters that delimit the string literals of a statement
LiteralDelimiters(heading) ==
  CASE heading = ": Fill input" -> 4
    [] heading \in {": Click", ": Navigate"} -> 2
    [] OTHER -> 0

RECURSIVE SumDelimiters(_)
SumDelimiters(headings) ==
  IF headings = <<>> THEN 0
  ELSE LiteralDelimiters(Head(headings)) + SumDelimiters(Tail(headings))

\* C26: in the generated program no raw target, value, url or task ends the
\* string literal it is put in: every quote character of the text is one of the
\* delimiters the template writes (two for the first goto, two per click and
\* navigate, four per fill), a quote inside a target or value being escaped.
C26_SafeQuoting ==
  \A i \in CallsOf("generate") :
     QuoteCount(log[i].out) = 2 + SumDelimiters(ActionBlocks(log[i].out))

(***************************************************************************)
(* Properties of a failing cached entry                                    *)
(***************************************************************************)
\* the library entry of the running invocation's pair is what it was when the
\* invocation began
EntryUnchanged ==
  /\ GenerateId(url, task) \in DOMAIN lib0
  /\ GenerateId(url, task) \in DOMAIN lib
  /\ lib[GenerateId(url, task)] = lib0[GenerateId(url, task)]

\* the invocation that just ended ran a cached script that failed and went on
\* to adaptive execution or to exploration failure
EndedWithoutNewScript ==
  /\ pc = "done"
  /\ CachedRunFailed
  /\ ret.kind = "ExecutionResult"
  /\ ret.method \in {"BROWSER_USE", "EXPLORATION_FAILED"}

\* the next invocation is for the same pair and runs the same cached script first
SameCachedScriptRunsFirst ==
  (now' # now /\ url' = url /\ task' = task)
    => (pc' = "execute_cached" /\ existing_script' = existing_script)

\* C31: after the sandbox run of a cached script has failed, the library entry
\* of (url, task) stays as it was unless the same invocation generates a script
\* whose test run succeeds; and when the invocation ended in adaptive execution
\* or exploration failure, the next invocation for the same (url, task) runs the
\* same cached script first.
C31_FailingEntryIsKept ==
  /\ []((CachedRunFailed /\ ~test_output.some) => EntryUnchanged)
  /\ [][EndedWithoutNewScript => SameCachedScriptRunsFirst]_vars

AdaptiveCalls == { i \in DOMAIN log : log[i].op = "adaptive" }

\* C30: an invocation of execute calls the Adaptive Executor at most once, on
\* every route and whatever the collaborators do, the executor raising included
C30_AdaptiveAtMostOnce == Cardinality(AdaptiveCalls) <= 1

C15_FindNeverSeesPartialEntry ==
  last_call.op = "find" =>
    \/ last_call.result = None
    \/ \E e \in started :
         /\ e[1] = GenerateId(last_call.url, last_call.task)
         /\ last_call.result = Some(e[2])

====
